---------------------------- MODULE Spec2Model ----------------------------
(***************************************************************************)
(* Model of the options spread backtester: the price-series provider       *)
(* (data_utils.py), the strategy core (strategy.py), the backtest loop and *)
(* main (backtest.py) and the attributes the report reads of a Trade       *)
(* (excel_output.py).                                                      *)
(*                                                                         *)
(* Representation.                                                         *)
(*  - A time of day is an integer; the "HH:MM:SS" strings of the code are  *)
(*    zero padded, so their string order is the order of these integers.   *)
(*    0 is before 09:15, 1 = 09:15:00, 2 = 09:16:00, 3 = 09:45:00,         *)
(*    4 = 09:46:00, 5 = 15:25:00, 6 = 15:30:00, 7 is after 15:30.  In the  *)
(*    windows given to the exit engine alone, the time of bar k is k.      *)
(*  - A fraction of the configuration (slippage, hedge distance, buffer)   *)
(*    is an integer number of thousandths (Scale).  A raw quoted price is  *)
(*    an integer; a price after slippage and every P&L is an integer       *)
(*    number of thousandths.                                               *)
(*  - A date is the table name ddmm (the year is fixed): 1502 is 15 Feb.   *)
(*  - A table is the sequence of its rows in rowid order; ORDER BY is a    *)
(*    stable sort of that sequence.  None is 0 for a strike and "" for an  *)
(*    instrument type (both falsy in Python, as the code tests them).      *)
(***************************************************************************)
EXTENDS Integers, Sequences, FiniteSets, TLC

VARIABLES
    config,             \* the StrategyConfig held by every component
    tables,             \* table names of the option database, in sqlite_master order
    spot_db,            \* spot database: table name -> rows [time, close]
    opt_db,             \* option database: table name -> rows
    pc,                 \* position of run_backtest / of a function application
    available_dates,    \* run_backtest: the list being iterated
    idx,                \* run_backtest: number of dates already processed
    trades,             \* run_backtest: the list of Trade records
    successful_trades,  \* run_backtest: counter
    log,                \* per processed date: what execute_trade did (history)
    args,               \* arguments of the function being applied
    ret                 \* its result

vars == <<config, tables, spot_db, opt_db, pc, available_dates, idx, trades,
          successful_trades, log, args, ret>>

---------------------------------------------------------------------------
(* Bounds of the model *)

MaxDates == 2       \* tables in the option database
MaxBars == 3        \* bars of a series given to the classifier
MaxStrike == 6      \* strikes of the selector's inputs are 1..MaxStrike
MaxPrice == 4       \* raw prices given to the slippage model are 0..MaxPrice

---------------------------------------------------------------------------
(* Program constants *)

Scale == 1000            \* denominator of fractions and of adjusted prices
SessionStart == 1        \* '09:15:00' of the SQL BETWEEN
SessionEnd == 6          \* '15:30:00' of the SQL BETWEEN
RollingWindow == 3       \* rolling(window=3, ...)
buffer_pct == 50         \* 0.05

StrategyConfig ==
    [entry_time |-> 5, market_open |-> 1, exit_time |-> 3,
     entry_slippage |-> 5, exit_slippage |-> 5,
     hedge_distance_pct |-> 20, trail_timeframe_minutes |-> 3,
     lot_size |-> 1]

---------------------------------------------------------------------------
(* Helpers: Python and SQL primitives *)

Abs(x) == IF x < 0 THEN 0 - x ELSE x

Range(s) == {s[i] : i \in 1..Len(s)}

\* ORDER BY / sorted(): stable sort of s by the integer keys key[i] of s[i]
SortByKey(s, key) ==
    LET n == Len(s)
        keyed == {<<i, key[i]>> : i \in 1..n}
        ranked == {<<1 + Cardinality({q \in keyed :
                         \/ q[2] < p[2]
                         \/ (q[2] = p[2] /\ q[1] < p[1])}), p[1]>> : p \in keyed}
    IN  [k \in 1..n |-> s[(CHOOSE p \in ranked : p[1] = k)[2]]]

\* min(seq, key=): the first element of s whose key, key[i] for s[i], is
\* minimal (s non-empty)
MinByKey(s, key) ==
    s[CHOOSE i \in 1..Len(s) :
        /\ \A j \in 1..Len(s) : key[i] <= key[j]
        /\ \A j \in 1..(i - 1) : key[j] > key[i]]

\* Series.min() / Series.max() of a non-empty set of integers
SetMin(S) == CHOOSE x \in S : \A y \in S : x <= y
SetMax(S) == CHOOSE x \in S : \A y \in S : x >= y

\* SELECT DISTINCT ... ORDER BY: the integers of S in ascending order
Ascending(S) ==
    [k \in 1..Cardinality(S) |-> CHOOSE x \in S : Cardinality({y \in S : y < x}) = k - 1]

\* pd.to_datetime(x, format='%d%m%Y') as a sortable number: month, then day
DateKey(d) == (d % 100) * 100 + (d \div 100)

---------------------------------------------------------------------------
(* data_utils.py: DataManager *)

get_table_names == tables

get_spot_data(date_table) ==
    LET rows == SelectSeq(spot_db[date_table],
                    LAMBDA r : r.time >= SessionStart /\ r.time <= SessionEnd)
    IN  SortByKey(rows, [i \in 1..Len(rows) |-> rows[i].time])

get_option_data(date_table, strike, instrument_type) ==
    LET rows == SelectSeq(opt_db[date_table], LAMBDA r :
                    /\ r.time >= SessionStart /\ r.time <= SessionEnd
                    /\ (strike # 0 => r.strike = strike)
                    /\ (instrument_type # "" => r.instrument_type = instrument_type))
        df == SortByKey(rows, [i \in 1..Len(rows) |-> rows[i].time * Scale + rows[i].strike])
    IN  IF Len(df) > 0 /\ strike # 0 /\ instrument_type # ""
        THEN LET nearest_expiry == SetMin({r.expiry : r \in Range(df)})
             IN  SelectSeq(df, LAMBDA r : r.expiry = nearest_expiry)
        ELSE df

\* the table names as the database lists them, not sorted
get_available_dates_unsorted == get_table_names

get_available_dates == SortByKey(get_table_names, [i \in 1..Len(get_table_names) |-> DateKey(get_table_names[i])])

\* the successor index taken modulo the length: the last date wraps to the first
get_next_trading_day_wrapped(current_date) ==
    LET all_dates == get_available_dates
    IN  IF \E i \in 1..Len(all_dates) : all_dates[i] = current_date
        THEN LET current_idx == CHOOSE i \in 1..Len(all_dates) :
                                    all_dates[i] = current_date
             IN  all_dates[(current_idx % Len(all_dates)) + 1]
        ELSE 0

\* the successor taken in the order the database lists its tables
get_next_trading_day_table_order(current_date) ==
    LET all_dates == get_table_names
    IN  IF \E i \in 1..Len(all_dates) : all_dates[i] = current_date
        THEN LET current_idx == CHOOSE i \in 1..Len(all_dates) :
                                    all_dates[i] = current_date
             IN  IF current_idx < Len(all_dates)
                 THEN all_dates[current_idx + 1]
                 ELSE 0
        ELSE 0

\* the successor index clamped to the list: the last date is its own successor
get_next_trading_day_clamped(current_date) ==
    LET all_dates == get_available_dates
    IN  IF \E i \in 1..Len(all_dates) : all_dates[i] = current_date
        THEN LET current_idx == CHOOSE i \in 1..Len(all_dates) :
                                    all_dates[i] = current_date
             IN  IF current_idx < Len(all_dates)
                 THEN all_dates[current_idx + 1]
                 ELSE all_dates[current_idx]
        ELSE 0

\* None is 0
get_next_trading_day(current_date) ==
    LET all_dates == get_available_dates
    IN  IF \E i \in 1..Len(all_dates) : all_dates[i] = current_date
        THEN LET current_idx == CHOOSE i \in 1..Len(all_dates) :
                                    /\ all_dates[i] = current_date
                                    /\ \A j \in 1..(i - 1) : all_dates[j] # current_date
             IN  IF current_idx < Len(all_dates)
                 THEN all_dates[current_idx + 1]
                 ELSE 0
        ELSE 0

\* min() replaced by a scan that keeps the later of two equally near strikes
get_atm_strike_last(spot_price, available_strikes) ==
    available_strikes[CHOOSE i \in 1..Len(available_strikes) :
        /\ \A j \in 1..Len(available_strikes) :
              Abs(available_strikes[i] - spot_price) <= Abs(available_strikes[j] - spot_price)
        /\ \A j \in (i + 1)..Len(available_strikes) :
              Abs(available_strikes[j] - spot_price) > Abs(available_strikes[i] - spot_price)]

get_atm_strike(spot_price, available_strikes) ==
    MinByKey(available_strikes, [i \in 1..Len(available_strikes) |-> Abs(available_strikes[i] - spot_price)])

get_strikes_by_expiry(date_table, expiry) ==
    Ascending({r.strike : r \in {q \in Range(opt_db[date_table]) : q.expiry = expiry}})

---------------------------------------------------------------------------
(* strategy.py: OptionsStrategy *)

\* zero movement classified UP: movement_pct >= 0
analyze_market_movement_flat_up(cfg, spot_df) ==
    LET from_open == SelectSeq(spot_df, LAMBDA r : r.time >= cfg.market_open)
        to_entry == SelectSeq(spot_df, LAMBDA r : r.time <= cfg.entry_time)
    IN  IF Len(from_open) = 0 \/ Len(to_entry) = 0
        THEN [ok |-> FALSE]
        ELSE LET open_price == from_open[1].close
                 entry_price == to_entry[Len(to_entry)].close
             IN  [ok |-> TRUE, open_price |-> open_price, entry_price |-> entry_price,
                  direction |-> IF entry_price >= open_price THEN "UP" ELSE "DOWN"]

\* A raised IndexError (.iloc on an empty selection) is [ok |-> FALSE].
\* movement_pct > 0 is the sign of the quotient (entry - open) / open.
analyze_market_movement(cfg, spot_df) ==
    LET from_open == SelectSeq(spot_df, LAMBDA r : r.time >= cfg.market_open)
        to_entry == SelectSeq(spot_df, LAMBDA r : r.time <= cfg.entry_time)
    IN  IF Len(from_open) = 0 \/ Len(to_entry) = 0
        THEN [ok |-> FALSE]
        ELSE LET open_price == from_open[1].close
                 entry_price == to_entry[Len(to_entry)].close
                 num == entry_price - open_price
                 movement_positive == \/ (num > 0 /\ open_price > 0)
                                      \/ (num < 0 /\ open_price < 0)
             IN  [ok |-> TRUE, open_price |-> open_price, entry_price |-> entry_price,
                  direction |-> IF movement_positive THEN "UP" ELSE "DOWN"]

\* hedge candidates not strictly beyond ATM: s <= atm_strike, s >= atm_strike
get_atm_and_hedge_strikes_inclusive(cfg, spot_price, available_strikes, direction) ==
    LET atm_strike == get_atm_strike(spot_price, available_strikes)
        instrument_type == IF direction = "UP" THEN "PE" ELSE "CE"
        target_hedge == IF instrument_type = "PE"
                        THEN (atm_strike * (Scale - cfg.hedge_distance_pct)) \div Scale
                        ELSE (atm_strike * (Scale + cfg.hedge_distance_pct)) \div Scale
        hedge_candidates == IF instrument_type = "PE"
                            THEN SelectSeq(available_strikes, LAMBDA s : s <= atm_strike)
                            ELSE SelectSeq(available_strikes, LAMBDA s : s >= atm_strike)
        hedge_strike == IF Len(hedge_candidates) = 0
                        THEN atm_strike
                        ELSE MinByKey(hedge_candidates, [i \in 1..Len(hedge_candidates) |-> Abs(hedge_candidates[i] - target_hedge)])
    IN  [atm_strike |-> atm_strike, hedge_strike |-> hedge_strike]

\* the hedge target taken on the wrong side: (1 + offset) for PE, (1 - offset) for CE
get_atm_and_hedge_strikes_wrong_target(cfg, spot_price, available_strikes, direction) ==
    LET atm_strike == get_atm_strike(spot_price, available_strikes)
        instrument_type == IF direction = "UP" THEN "PE" ELSE "CE"
        target_hedge == IF instrument_type = "PE"
                        THEN (atm_strike * (Scale + cfg.hedge_distance_pct)) \div Scale
                        ELSE (atm_strike * (Scale - cfg.hedge_distance_pct)) \div Scale
        hedge_candidates == IF instrument_type = "PE"
                            THEN SelectSeq(available_strikes, LAMBDA s : s < atm_strike)
                            ELSE SelectSeq(available_strikes, LAMBDA s : s > atm_strike)
        hedge_strike == IF Len(hedge_candidates) = 0
                        THEN atm_strike
                        ELSE MinByKey(hedge_candidates, [i \in 1..Len(hedge_candidates) |-> Abs(hedge_candidates[i] - target_hedge)])
    IN  [atm_strike |-> atm_strike, hedge_strike |-> hedge_strike]

\* int(atm_strike * (1 -+ hedge_distance_pct)) truncates a positive product.  For
\* the fractions the model draws (0.02, 0.25) the floating-point product
\* truncates to the same integer as the exact one, for every strike up to 100000.
get_atm_and_hedge_strikes(cfg, spot_price, available_strikes, direction) ==
    LET atm_strike == get_atm_strike(spot_price, available_strikes)
        instrument_type == IF direction = "UP" THEN "PE" ELSE "CE"
        target_hedge == IF instrument_type = "PE"
                        THEN (atm_strike * (Scale - cfg.hedge_distance_pct)) \div Scale
                        ELSE (atm_strike * (Scale + cfg.hedge_distance_pct)) \div Scale
        hedge_candidates == IF instrument_type = "PE"
                            THEN SelectSeq(available_strikes, LAMBDA s : s < atm_strike)
                            ELSE SelectSeq(available_strikes, LAMBDA s : s > atm_strike)
        hedge_strike == IF Len(hedge_candidates) = 0
                        THEN atm_strike
                        ELSE MinByKey(hedge_candidates, [i \in 1..Len(hedge_candidates) |-> Abs(hedge_candidates[i] - target_hedge)])
    IN  [atm_strike |-> atm_strike, hedge_strike |-> hedge_strike]

\* the two signs exchanged: a sale above, a purchase below the raw price
get_option_price_with_slippage_reversed(cfg, price, is_entry, is_sell) ==
    LET slippage == IF is_entry THEN cfg.entry_slippage ELSE cfg.exit_slippage
    IN  IF is_sell
        THEN price * (Scale + slippage)
        ELSE price * (Scale - slippage)

\* the result is in thousandths: price * (1 -+ slippage)
get_option_price_with_slippage(cfg, price, is_entry, is_sell) ==
    LET slippage == IF is_entry THEN cfg.entry_slippage ELSE cfg.exit_slippage
    IN  IF is_sell
        THEN price * (Scale - slippage)
        ELSE price * (Scale + slippage)

\* an expanding window: every row up to position i
RollingRows_expanding(option_df, i) ==
    {option_df[j] : j \in 1..i}

\* rolling(window=3, min_periods=1) over column col at position i
RollingRows(option_df, i) ==
    {option_df[j] : j \in {k \in 1..i : k > i - RollingWindow}}

\* the stop tested from the first bar on: no i >= 2
calculate_trailing_exits_no_wait(option_df, entry_price, is_short_position) ==
    IF Len(option_df) = 0
    THEN [time |-> 0, price |-> -1, reason |-> "No Data"]
    ELSE LET trail(i) == IF is_short_position
                         THEN SetMin({r.low : r \in RollingRows(option_df, i)})
                         ELSE SetMax({r.high : r \in RollingRows(option_df, i)})
             hit(i) == /\ i >= 1
                       /\ IF is_short_position
                          THEN option_df[i].close * Scale > trail(i) * (Scale + buffer_pct)
                          ELSE option_df[i].close * Scale < trail(i) * (Scale - buffer_pct)
             hits == {i \in 1..Len(option_df) : hit(i)}
         IN  IF hits # {}
             THEN LET i == SetMin(hits)
                  IN  [time |-> option_df[i].time, price |-> option_df[i].close,
                       reason |-> "Trail Stop Hit"]
             ELSE LET last_row == option_df[Len(option_df)]
                  IN  [time |-> last_row.time, price |-> last_row.close,
                       reason |-> "Time Exit"]

\* the long leg stopped at the level itself: <= for <
calculate_trailing_exits_long_at_level(option_df, entry_price, is_short_position) ==
    IF Len(option_df) = 0
    THEN [time |-> 0, price |-> -1, reason |-> "No Data"]
    ELSE LET trail(i) == IF is_short_position
                         THEN SetMin({r.low : r \in RollingRows(option_df, i)})
                         ELSE SetMax({r.high : r \in RollingRows(option_df, i)})
             hit(i) == /\ i - 1 >= 2
                       /\ IF is_short_position
                          THEN option_df[i].close * Scale > trail(i) * (Scale + buffer_pct)
                          ELSE option_df[i].close * Scale <= trail(i) * (Scale - buffer_pct)
             hits == {i \in 1..Len(option_df) : hit(i)}
         IN  IF hits # {}
             THEN LET i == SetMin(hits)
                  IN  [time |-> option_df[i].time, price |-> option_df[i].close,
                       reason |-> "Trail Stop Hit"]
             ELSE LET last_row == option_df[Len(option_df)]
                  IN  [time |-> last_row.time, price |-> last_row.close,
                       reason |-> "Time Exit"]

\* the time exit taken at the first row: iloc[0] for iloc[-1]
calculate_trailing_exits_first_row(option_df, entry_price, is_short_position) ==
    IF Len(option_df) = 0
    THEN [time |-> 0, price |-> -1, reason |-> "No Data"]
    ELSE LET trail(i) == IF is_short_position
                         THEN SetMin({r.low : r \in RollingRows(option_df, i)})
                         ELSE SetMax({r.high : r \in RollingRows(option_df, i)})
             hit(i) == /\ i - 1 >= 2
                       /\ IF is_short_position
                          THEN option_df[i].close * Scale > trail(i) * (Scale + buffer_pct)
                          ELSE option_df[i].close * Scale < trail(i) * (Scale - buffer_pct)
             hits == {i \in 1..Len(option_df) : hit(i)}
         IN  IF hits # {}
             THEN LET i == SetMin(hits)
                  IN  [time |-> option_df[i].time, price |-> option_df[i].close,
                       reason |-> "Trail Stop Hit"]
             ELSE LET last_row == option_df[1]
                  IN  [time |-> last_row.time, price |-> last_row.close,
                       reason |-> "Time Exit"]

\* None is 0 for the time and -1 for the price
calculate_trailing_exits(option_df, entry_price, is_short_position) ==
    IF Len(option_df) = 0
    THEN [time |-> 0, price |-> -1, reason |-> "No Data"]
    ELSE LET trail(i) == IF is_short_position
                         THEN SetMin({r.low : r \in RollingRows(option_df, i)})
                         ELSE SetMax({r.high : r \in RollingRows(option_df, i)})
             hit(i) == /\ i - 1 >= 2
                       /\ IF is_short_position
                          THEN option_df[i].close * Scale > trail(i) * (Scale + buffer_pct)
                          ELSE option_df[i].close * Scale < trail(i) * (Scale - buffer_pct)
             hits == {i \in 1..Len(option_df) : hit(i)}
         IN  IF hits # {}
             THEN LET i == SetMin(hits)
                  IN  [time |-> option_df[i].time, price |-> option_df[i].close,
                       reason |-> "Trail Stop Hit"]
             ELSE LET last_row == option_df[Len(option_df)]
                  IN  [time |-> last_row.time, price |-> last_row.close,
                       reason |-> "Time Exit"]

\* the legs coupled: when the main leg is stopped, the hedge leg leaves at its
\* bar of the same time, if it has one
calculate_independent_exits_coupled(main_df, hedge_df, main_entry_price, hedge_entry_price) ==
    LET main == calculate_trailing_exits(main_df, main_entry_price, TRUE)
        hedge == calculate_trailing_exits(hedge_df, hedge_entry_price, FALSE)
        same == {i \in 1..Len(hedge_df) : hedge_df[i].time = main.time}
    IN  [main |-> main,
         hedge |-> IF main.reason = "Trail Stop Hit" /\ same # {}
                   THEN [time |-> main.time, price |-> hedge_df[SetMin(same)].close,
                         reason |-> "Main Trail Stop"]
                   ELSE hedge]

calculate_independent_exits(main_df, hedge_df, main_entry_price, hedge_entry_price) ==
    [main |-> calculate_trailing_exits(main_df, main_entry_price, TRUE),
     hedge |-> calculate_trailing_exits(hedge_df, hedge_entry_price, FALSE)]

\* the two instrument types exchanged
instrument_type_for_swapped(direction) == IF direction = "UP" THEN "CE" ELSE "PE"

\* execute_trade, line 155
instrument_type_for(direction) == IF direction = "UP" THEN "PE" ELSE "CE"

\* the sides exchanged at entry: the main leg bought, the hedge leg sold
entry_prices_sides_exchanged(cfg, entry_row, hedge_entry_row) ==
    LET last_main == entry_row[Len(entry_row)]
        last_hedge == hedge_entry_row[Len(hedge_entry_row)]
    IN  [entry_time |-> last_main.time,
         main_raw |-> last_main.close,
         hedge_raw |-> last_hedge.close,
         entry_price |-> get_option_price_with_slippage(cfg, last_main.close, TRUE, FALSE),
         hedge_entry_price |->
             get_option_price_with_slippage(cfg, last_hedge.close, TRUE, TRUE)]

\* execute_trade, lines 182-188: the last bar at or before the entry time of each
\* leg; the main leg is sold, the hedge leg is bought
entry_prices(cfg, entry_row, hedge_entry_row) ==
    LET last_main == entry_row[Len(entry_row)]
        last_hedge == hedge_entry_row[Len(hedge_entry_row)]
    IN  [entry_time |-> last_main.time,
         main_raw |-> last_main.close,
         hedge_raw |-> last_hedge.close,
         entry_price |-> get_option_price_with_slippage(cfg, last_main.close, TRUE, TRUE),
         hedge_entry_price |->
             get_option_price_with_slippage(cfg, last_hedge.close, TRUE, FALSE)]

\* execute_trade, lines 227-229: buy back the short leg, sell the long leg
exit_prices(cfg, main_exit_price_raw, hedge_exit_price_raw) ==
    [main_exit_price |->
         get_option_price_with_slippage(cfg, main_exit_price_raw, FALSE, FALSE),
     hedge_exit_price |->
         get_option_price_with_slippage(cfg, hedge_exit_price_raw, FALSE, TRUE)]

\* the total taken as the difference of the two legs
profit_and_loss_difference(cfg, entry_price, main_exit_price, hedge_entry_price, hedge_exit_price) ==
    LET main_pnl == (entry_price - main_exit_price) * cfg.lot_size
        hedge_pnl == (hedge_exit_price - hedge_entry_price) * cfg.lot_size
        total_pnl == main_pnl - hedge_pnl
        total_capital == entry_price + hedge_entry_price
        pct(pnl, capital) == IF capital > 0
                             THEN [num |-> pnl * 100, den |-> capital]
                             ELSE [num |-> 0, den |-> 1]
    IN  [main_pnl |-> main_pnl, hedge_pnl |-> hedge_pnl, total_pnl |-> total_pnl,
         main_pnl_pct |-> pct(main_pnl, entry_price),
         hedge_pnl_pct |-> pct(hedge_pnl, hedge_entry_price),
         total_pnl_pct |-> pct(total_pnl, total_capital)]

\* execute_trade, lines 231-242.  A percentage is the fraction num / den.
profit_and_loss(cfg, entry_price, main_exit_price, hedge_entry_price, hedge_exit_price) ==
    LET main_pnl == (entry_price - main_exit_price) * cfg.lot_size
        hedge_pnl == (hedge_exit_price - hedge_entry_price) * cfg.lot_size
        total_pnl == main_pnl + hedge_pnl
        total_capital == entry_price + hedge_entry_price
        pct(pnl, capital) == IF capital > 0
                             THEN [num |-> pnl * 100, den |-> capital]
                             ELSE [num |-> 0, den |-> 1]
    IN  [main_pnl |-> main_pnl, hedge_pnl |-> hedge_pnl, total_pnl |-> total_pnl,
         main_pnl_pct |-> pct(main_pnl, entry_price),
         hedge_pnl_pct |-> pct(hedge_pnl, hedge_entry_price),
         total_pnl_pct |-> pct(total_pnl, total_capital)]

\* the contracts (strike, instrument type, expiry) the rows of a series belong to
Contracts(df) ==
    {[strike |-> r.strike, instrument_type |-> r.instrument_type, expiry |-> r.expiry] :
        r \in Range(df)}

\* return None, with the message printed before it
NoTrade(message) == [kind |-> "None", message |-> message]

\* execute_trade returns [kind |-> "None", ...] or [kind |-> "Trade", trade |-> the
\* Trade, seen |-> the values computed on the way (not part of the Trade)].  An
\* exception raised inside the try block is caught and returns None (268-270).
\* The body is cut into its steps, each a definition taking what the step before
\* it computed; c is [direction, expiry, available_strikes, instrument_type,
\* atm_strike, hedge_strike, main_option_df, hedge_option_df, next_date].

\* the guard of line 224 testing the main leg only
trade_of_exits_main_only(cfg, date, c, en, dfs, ex) ==
    IF ex.main.price = -1 THEN NoTrade("") ELSE
    LET xp == exit_prices(cfg, ex.main.price, ex.hedge.price)
        pl == profit_and_loss(cfg, en.entry_price, xp.main_exit_price,
                              en.hedge_entry_price, xp.hedge_exit_price)
    IN  [kind |-> "Trade",
         trade |->
            [date |-> date,
             exit_date |-> c.next_date,
             entry_time |-> en.entry_time,
             main_exit_time |-> ex.main.time,
             hedge_exit_time |-> ex.hedge.time,
             strike |-> c.atm_strike,
             hedge_strike |-> c.hedge_strike,
             instrument_type |-> c.instrument_type,
             entry_price |-> en.entry_price,
             exit_price |-> xp.main_exit_price,
             hedge_entry_price |-> en.hedge_entry_price,
             hedge_exit_price |-> xp.hedge_exit_price,
             main_pnl |-> pl.main_pnl,
             hedge_pnl |-> pl.hedge_pnl,
             total_pnl |-> pl.total_pnl,
             main_pnl_pct |-> pl.main_pnl_pct,
             hedge_pnl_pct |-> pl.hedge_pnl_pct,
             total_pnl_pct |-> pl.total_pnl_pct,
             entry_reason |-> <<"Market", c.direction, "Sell", c.instrument_type>>,
             main_exit_reason |-> ex.main.reason,
             hedge_exit_reason |-> ex.hedge.reason],
         seen |->
            [direction |-> c.direction,
             expiry |-> c.expiry,
             available_strikes |-> c.available_strikes,
             main_entry |-> Contracts(c.main_option_df),
             hedge_entry |-> Contracts(c.hedge_option_df),
             main_exit |-> Contracts(dfs.main),
             hedge_exit |-> Contracts(dfs.hedge),
             main_entry_price_raw |-> en.main_raw,
             hedge_entry_price_raw |-> en.hedge_raw,
             main_exit_price_raw |-> ex.main.price,
             hedge_exit_price_raw |-> ex.hedge.price]]

\* lines 224-266: exit slippage, P&L and the Trade record
trade_of_exits(cfg, date, c, en, dfs, ex) ==
    IF ex.main.price = -1 \/ ex.hedge.price = -1 THEN NoTrade("") ELSE
    LET xp == exit_prices(cfg, ex.main.price, ex.hedge.price)
        pl == profit_and_loss(cfg, en.entry_price, xp.main_exit_price,
                              en.hedge_entry_price, xp.hedge_exit_price)
    IN  [kind |-> "Trade",
         trade |->
            [date |-> date,
             exit_date |-> c.next_date,
             entry_time |-> en.entry_time,
             main_exit_time |-> ex.main.time,
             hedge_exit_time |-> ex.hedge.time,
             strike |-> c.atm_strike,
             hedge_strike |-> c.hedge_strike,
             instrument_type |-> c.instrument_type,
             entry_price |-> en.entry_price,
             exit_price |-> xp.main_exit_price,
             hedge_entry_price |-> en.hedge_entry_price,
             hedge_exit_price |-> xp.hedge_exit_price,
             main_pnl |-> pl.main_pnl,
             hedge_pnl |-> pl.hedge_pnl,
             total_pnl |-> pl.total_pnl,
             main_pnl_pct |-> pl.main_pnl_pct,
             hedge_pnl_pct |-> pl.hedge_pnl_pct,
             total_pnl_pct |-> pl.total_pnl_pct,
             entry_reason |-> <<"Market", c.direction, "Sell", c.instrument_type>>,
             main_exit_reason |-> ex.main.reason,
             hedge_exit_reason |-> ex.hedge.reason],
         seen |->
            [direction |-> c.direction,
             expiry |-> c.expiry,
             available_strikes |-> c.available_strikes,
             main_entry |-> Contracts(c.main_option_df),
             hedge_entry |-> Contracts(c.hedge_option_df),
             main_exit |-> Contracts(dfs.main),
             hedge_exit |-> Contracts(dfs.hedge),
             main_entry_price_raw |-> en.main_raw,
             hedge_entry_price_raw |-> en.hedge_raw,
             main_exit_price_raw |-> ex.main.price,
             hedge_exit_price_raw |-> ex.hedge.price]]

\* lines 212-222: both windows non-empty, then the exit engine
trade_of_exit_window(cfg, date, c, en, dfs) ==
    IF Len(dfs.main) = 0 THEN NoTrade("No main option data at/before exit") ELSE
    IF Len(dfs.hedge) = 0 THEN NoTrade("No hedge option data at/before exit") ELSE
    trade_of_exits(cfg, date, c, en, dfs,
        calculate_independent_exits(dfs.main, dfs.hedge,
                                    en.entry_price, en.hedge_entry_price))

\* lines 200-210: both next-day series non-empty, then cut at the exit time
trade_of_next_day(cfg, date, c, en, next_main_df, next_hedge_df) ==
    IF Len(next_main_df) = 0 THEN NoTrade("No next day main option data") ELSE
    IF Len(next_hedge_df) = 0 THEN NoTrade("No next day hedge option data") ELSE
    trade_of_exit_window(cfg, date, c, en,
        [main |-> SelectSeq(next_main_df, LAMBDA r : r.time <= cfg.exit_time),
         hedge |-> SelectSeq(next_hedge_df, LAMBDA r : r.time <= cfg.exit_time)])

\* lines 190-198: the next trading day and its series of the two legs
trade_of_entry(cfg, date, c, en) ==
    IF c.next_date = 0 THEN NoTrade("No next trading day") ELSE
    trade_of_next_day(cfg, date, c, en,
        get_option_data(c.next_date, c.atm_strike, c.instrument_type),
        get_option_data(c.next_date, c.hedge_strike, c.instrument_type))

\* lines 170-188: the bars at or before the entry time
trade_of_entry_rows(cfg, date, c, entry_row, hedge_entry_row) ==
    IF Len(entry_row) = 0 THEN NoTrade("No main option entry data") ELSE
    IF Len(hedge_entry_row) = 0 THEN NoTrade("No hedge option entry data") ELSE
    trade_of_entry(cfg, date, c, entry_prices(cfg, entry_row, hedge_entry_row))

\* lines 162-171 (and 191: c.next_date)
trade_of_legs(cfg, date, c) ==
    IF Len(c.main_option_df) = 0 THEN NoTrade("No main option data") ELSE
    IF Len(c.hedge_option_df) = 0 THEN NoTrade("No hedge option data") ELSE
    trade_of_entry_rows(cfg, date, c,
        SelectSeq(c.main_option_df, LAMBDA r : r.time <= cfg.entry_time),
        SelectSeq(c.hedge_option_df, LAMBDA r : r.time <= cfg.entry_time))

\* lines 155-160: the instrument type and the series of the two legs
trade_of_strikes(cfg, date, mv, expiry, available_strikes, instrument_type, sel) ==
    trade_of_legs(cfg, date,
        [direction |-> mv.direction,
         expiry |-> expiry,
         available_strikes |-> available_strikes,
         instrument_type |-> instrument_type,
         atm_strike |-> sel.atm_strike,
         hedge_strike |-> sel.hedge_strike,
         main_option_df |-> get_option_data(date, sel.atm_strike, instrument_type),
         hedge_option_df |-> get_option_data(date, sel.hedge_strike, instrument_type),
         next_date |-> get_next_trading_day(date)])

\* lines 152-156: min() of an empty list raises ValueError
trade_of_expiry(cfg, date, mv, expiry, available_strikes) ==
    IF Len(available_strikes) = 0 THEN NoTrade("Error processing") ELSE
    trade_of_strikes(cfg, date, mv, expiry, available_strikes,
        instrument_type_for(mv.direction),
        get_atm_and_hedge_strikes(cfg, mv.entry_price, available_strikes, mv.direction))

\* lines 146-152: the expiry of the first row of the day's option rows
trade_of_universe(cfg, date, mv, option_sample) ==
    IF Len(option_sample) = 0 THEN NoTrade("No option data") ELSE
    trade_of_expiry(cfg, date, mv, option_sample[1].expiry,
        get_strikes_by_expiry(date, option_sample[1].expiry))

\* no try block: the exception of analyze_market_movement leaves execute_trade
trade_of_movement_uncaught(cfg, date, mv) ==
    IF ~mv.ok THEN [kind |-> "Raised", message |-> "IndexError"] ELSE
    trade_of_universe(cfg, date, mv, get_option_data(date, 0, ""))

\* lines 143-146: analyze_market_movement raised, or the option rows of the day
trade_of_movement(cfg, date, mv) ==
    IF ~mv.ok THEN NoTrade("Error processing") ELSE
    trade_of_universe(cfg, date, mv, get_option_data(date, 0, ""))

\* lines 137-143
trade_of_spot(cfg, date, spot_df) ==
    IF Len(spot_df) = 0 THEN NoTrade("No spot data") ELSE
    trade_of_movement(cfg, date, analyze_market_movement(cfg, spot_df))

execute_trade(cfg, date) == trade_of_spot(cfg, date, get_spot_data(date))

---------------------------------------------------------------------------
(* backtest.py: Backtester.run_backtest *)

\* the lists of an earlier call kept: trades and the counter not set anew
StartBacktest_keeps_trades ==
    /\ pc = "start"
    /\ available_dates' = get_available_dates
    /\ idx' = 0
    /\ pc' = "loop"
    /\ UNCHANGED <<config, tables, spot_db, opt_db, trades, successful_trades, log,
                   args, ret>>

\* lines 24-31
StartBacktest ==
    /\ pc = "start"
    /\ available_dates' = get_available_dates
    /\ trades' = <<>>
    /\ successful_trades' = 0
    /\ idx' = 0
    /\ pc' = "loop"
    /\ UNCHANGED <<config, tables, spot_db, opt_db, log, args, ret>>

\* lines 34-48: one iteration of the loop over available_dates
ProcessDate ==
    /\ pc = "loop"
    /\ idx < Len(available_dates)
    /\ LET date == available_dates[idx + 1]
           result == execute_trade(config, date)
       IN  /\ IF result.kind = "Trade"
              THEN /\ trades' = Append(trades, result.trade)
                   /\ successful_trades' = successful_trades + 1
              ELSE UNCHANGED <<trades, successful_trades>>
           /\ log' = Append(log, [date |-> date, result |-> result])
    /\ idx' = idx + 1
    /\ UNCHANGED <<config, tables, spot_db, opt_db, pc, available_dates, args, ret>>

\* lines 50-61: the summary divides by len(available_dates); with no date the
\* ZeroDivisionError leaves run_backtest
FinishBacktest ==
    /\ pc = "loop"
    /\ idx = Len(available_dates)
    /\ pc' = IF Len(available_dates) = 0 THEN "crashed" ELSE "returned"
    /\ UNCHANGED <<config, tables, spot_db, opt_db, available_dates, idx, trades,
                   successful_trades, log, args, ret>>

---------------------------------------------------------------------------
(* excel_output.py and backtest.py: the report step of main *)

\* the attributes of a Trade that generate_excel_report reads (lines 24-25, 48-66)
ReportedFields ==
    {"date", "total_pnl", "exit_date", "entry_time", "exit_time", "strike",
     "hedge_strike", "instrument_type", "entry_price", "exit_price",
     "hedge_entry_price", "hedge_exit_price", "main_pnl", "hedge_pnl",
     "main_pnl_pct", "hedge_pnl_pct", "total_pnl_pct", "entry_reason", "exit_reason"}

\* reading an attribute the Trade dataclass does not have raises AttributeError
generate_excel_report(trade_list) ==
    IF \E k \in 1..Len(trade_list) : \E f \in ReportedFields : f \notin DOMAIN trade_list[k]
    THEN "AttributeError"
    ELSE "written"

\* main, lines 92-96: the report is generated only if there are trades; an
\* exception of generate_report leaves main
ReportOrSkip ==
    /\ pc = "returned"
    /\ pc' = IF Len(trades) > 0
             THEN IF generate_excel_report(trades) = "written"
                  THEN "main_done"
                  ELSE "main_crashed"
             ELSE "main_done"
    /\ UNCHANGED <<config, tables, spot_db, opt_db, available_dates, idx, trades,
                   successful_trades, log, args, ret>>

---------------------------------------------------------------------------
(* The datasets of the backtest specification *)

DateNames == {201, 1502, 103}       \* 02 Jan, 15 Feb, 01 Mar as ddmm

\* sequences of distinct table names, at most MaxDates of them
TableLists ==
    {tb \in UNION {[1..n -> DateNames] : n \in 0..MaxDates} :
        \A i, j \in 1..Len(tb) : i # j => tb[i] # tb[j]}

SpotBar(t, p) == [time |-> t, close |-> p]

\* the underlying of one day: rising, falling (rows not in time order, with a
\* pre-market row), nothing, or nothing at or before the entry time
SpotUp == <<SpotBar(1, 100), SpotBar(2, 101), SpotBar(5, 104), SpotBar(6, 99)>>
SpotDown == <<SpotBar(5, 100), SpotBar(0, 90), SpotBar(1, 104)>>
SpotNone == <<>>
SpotLate == <<SpotBar(6, 100)>>

\* quoted price of a contract: the out-of-the-money strike is cheaper; in the
\* profile "rise" ("fall") the 09:45 bar closes 2 higher (lower)
Quote(profile, s, ty, t) ==
    LET base == IF (ty = "PE") = (s = 100) THEN 8 ELSE 12
    IN  IF t = 3 /\ profile = "rise" THEN base + 2
        ELSE IF t = 3 /\ profile = "fall" THEN base - 2
        ELSE base

OptionBar(profile, s, ty, e, t) ==
    LET p == Quote(profile, s, ty, t)
    IN  [time |-> t, strike |-> s, instrument_type |-> ty, expiry |-> e,
         high |-> p, low |-> p, close |-> p]

\* the rows of one contract at the given times, latest first
Series(profile, s, ty, e, times) ==
    LET n == Cardinality(times)
        at(k) == CHOOSE t \in times : Cardinality({u \in times : u > t}) = k - 1
    IN  [k \in 1..n |-> OptionBar(profile, s, ty, e, at(k))]

FullDay == {1, 2, 3, 5}
EntryOnly == {5}
LateOnly == {6}
Both == {"PE", "CE"}

\* an option table: per strike, the instrument types listed and their bar times
OptionTable(profile, ty100, times100, ty105, times105) ==
    LET part(s, ty, tys, times) == IF ty \in tys
                                   THEN Series(profile, s, ty, 1, times)
                                   ELSE <<>>
    IN  part(105, "CE", ty105, times105) \o part(100, "PE", ty100, times100) \o
        part(100, "CE", ty100, times100) \o part(105, "PE", ty105, times105)

Complete(profile) == OptionTable(profile, Both, FullDay, Both, FullDay)

\* tables in which the legs of a falling day (CE 100, hedge CE 105) differ
OptionTablesDown ==
    {Complete(pr) : pr \in {"calm", "rise", "fall"}}
    \cup {<<>>,
          OptionTable("calm", Both, FullDay, Both, LateOnly),
          OptionTable("calm", Both, FullDay, Both, EntryOnly)}

\* and those in which the legs of a rising day (PE 105, hedge PE 100) differ
OptionTablesUp ==
    OptionTablesDown
    \cup {OptionTable("calm", {"CE"}, FullDay, {"CE"}, FullDay),
          OptionTable("calm", {"CE"}, FullDay, Both, FullDay),
          OptionTable("calm", Both, FullDay, {"CE"}, FullDay),
          OptionTable("calm", Both, LateOnly, Both, FullDay),
          OptionTable("calm", Both, EntryOnly, Both, FullDay)}

Days ==
    {[spot |-> SpotUp, opt |-> ot] : ot \in OptionTablesUp}
    \cup {[spot |-> SpotDown, opt |-> ot] : ot \in OptionTablesDown}
    \cup {[spot |-> sp, opt |-> Complete("calm")] : sp \in {SpotNone, SpotLate}}

NoCall == [op |-> "none"]

Init ==
    /\ config = StrategyConfig
    /\ tables \in TableLists
    /\ \E days \in [Range(tables) -> Days] :
          /\ spot_db = [d \in Range(tables) |-> days[d].spot]
          /\ opt_db = [d \in Range(tables) |-> days[d].opt]
    /\ pc = "start"
    /\ available_dates = <<>>
    /\ idx = 0
    /\ trades = <<>>
    /\ successful_trades = 0
    /\ log = <<>>
    /\ args = NoCall
    /\ ret = NoCall

Next == StartBacktest \/ ProcessDate \/ FinishBacktest \/ ReportOrSkip

Spec == Init /\ [][Next]_vars

\* Longer runs over fewer kinds of day, under two configurations: the default
\* one, and one whose exit slippage and lot size differ from the entry
\* slippage and from 1.
MaxRunDates == 3

RunDateNames == DateNames \cup {2812}       \* and 28 Dec

RunTableLists ==
    {tb \in UNION {[1..n -> RunDateNames] : n \in 0..MaxRunDates} :
        \A i, j \in 1..Len(tb) : i # j => tb[i] # tb[j]}

RunDays ==
    {[spot |-> SpotUp, opt |-> Complete("calm")],
     [spot |-> SpotDown, opt |-> Complete("rise")],
     [spot |-> SpotNone, opt |-> Complete("fall")]}

RunConfigs == {StrategyConfig, [StrategyConfig EXCEPT !.exit_slippage = 10, !.lot_size = 2]}

InitRun ==
    /\ config \in RunConfigs
    /\ tables \in RunTableLists
    /\ \E days \in [Range(tables) -> RunDays] :
          /\ spot_db = [d \in Range(tables) |-> days[d].spot]
          /\ opt_db = [d \in Range(tables) |-> days[d].opt]
    /\ pc = "start"
    /\ available_dates = <<>>
    /\ idx = 0
    /\ trades = <<>>
    /\ successful_trades = 0
    /\ log = <<>>
    /\ args = NoCall
    /\ ret = NoCall

SpecRun == InitRun /\ [][Next]_vars

\* Runs over up to four dates of four kinds: a rising and a falling day with
\* every contract quoted, a day whose underlying has bars only after the
\* decision time, and a rising day without option rows.
MaxSeasonDates == 4

SeasonTableLists ==
    {tb \in UNION {[1..n -> RunDateNames] : n \in 0..MaxSeasonDates} :
        \A i, j \in 1..Len(tb) : i # j => tb[i] # tb[j]}

SeasonDays ==
    {[spot |-> SpotUp, opt |-> Complete("calm")],
     [spot |-> SpotDown, opt |-> Complete("rise")],
     [spot |-> SpotLate, opt |-> Complete("calm")],
     [spot |-> SpotUp, opt |-> <<>>]}

InitSeason ==
    /\ config = StrategyConfig
    /\ tables \in SeasonTableLists
    /\ \E days \in [Range(tables) -> SeasonDays] :
          /\ spot_db = [d \in Range(tables) |-> days[d].spot]
          /\ opt_db = [d \in Range(tables) |-> days[d].opt]
    /\ pc = "start"
    /\ available_dates = <<>>
    /\ idx = 0
    /\ trades = <<>>
    /\ successful_trades = 0
    /\ log = <<>>
    /\ args = NoCall
    /\ ret = NoCall

SpecSeason == InitSeason /\ [][Next]_vars

\* Runs over days on which put contracts of two expiries (1 the nearer, 2 the
\* farther) are listed, the underlying rising:
\*  - only the nearer expiry, strikes 100 and 105;
\*  - both expiries, the farther one with the lowest strike of the table (95);
\*  - both expiries on the same strikes, the nearer one stored first;
\*  - the day after the nearer expiry: the farther one only.
PutRows(s, e) == Series("calm", s, "PE", e, FullDay)

NearOnly == PutRows(100, 1) \o PutRows(105, 1)
FarListedLower == PutRows(95, 2) \o PutRows(100, 2) \o PutRows(100, 1) \o PutRows(105, 1)
BothExpiries ==
    PutRows(100, 1) \o PutRows(105, 1) \o PutRows(100, 2) \o PutRows(105, 2) \o PutRows(110, 2)
AfterExpiry == PutRows(95, 2) \o PutRows(100, 2) \o PutRows(105, 2)

ExpiryDays ==
    {[spot |-> SpotUp, opt |-> ot] :
        ot \in {NearOnly, FarListedLower, BothExpiries, AfterExpiry}}

InitExpiry ==
    /\ config = StrategyConfig
    /\ tables \in TableLists
    /\ \E days \in [Range(tables) -> ExpiryDays] :
          /\ spot_db = [d \in Range(tables) |-> days[d].spot]
          /\ opt_db = [d \in Range(tables) |-> days[d].opt]
    /\ pc = "start"
    /\ available_dates = <<>>
    /\ idx = 0
    /\ trades = <<>>
    /\ successful_trades = 0
    /\ log = <<>>
    /\ args = NoCall
    /\ ret = NoCall

SpecExpiry == InitExpiry /\ [][Next]_vars

\* run_backtest called a second time on the same Backtester, the caller
\* keeping the list the first call returned
RunAgain ==
    /\ pc = "returned"
    /\ ret = NoCall
    /\ ret' = [op |-> "run_backtest", trades |-> trades]
    /\ log' = <<>>
    /\ pc' = "start"
    /\ UNCHANGED <<config, tables, spot_db, opt_db, available_dates, idx, trades,
                   successful_trades, args>>

NextTwice == StartBacktest \/ ProcessDate \/ FinishBacktest \/ RunAgain

SpecTwice == InitRun /\ [][NextTwice]_vars

---------------------------------------------------------------------------
(* Specifications that apply one function of the strategy to inputs drawn  *)
(* from bounded sets.  The database and the backtest loop are idle.        *)

IdleBacktest ==
    /\ tables = <<>>
    /\ spot_db = <<>>
    /\ opt_db = <<>>
    /\ available_dates = <<>>
    /\ idx = 0
    /\ trades = <<>>
    /\ successful_trades = 0
    /\ log = <<>>

Apply(op, result) ==
    /\ pc = "call"
    /\ args.op = op
    /\ ret' = result
    /\ pc' = "applied"
    /\ UNCHANGED <<config, tables, spot_db, opt_db, available_dates, idx, trades,
                   successful_trades, log, args>>

Applied(op) == pc = "applied" /\ args.op = op

\* --- the market direction classifier ---

\* what get_spot_data returns: at most MaxBars bars of the session, in time order,
\* one per minute, with positive prices
SpotSeries ==
    {df \in UNION {[1..n -> [time : SessionStart..SessionEnd, close : {1, 2}]] :
                      n \in 0..MaxBars} :
        \A i \in 1..(Len(df) - 1) : df[i].time < df[i + 1].time}

InitClassify ==
    /\ IdleBacktest
    /\ \E mo \in {1, 2}, et \in {4, 5} :
          config = [StrategyConfig EXCEPT !.market_open = mo, !.entry_time = et]
    /\ \E df \in SpotSeries : args = [op |-> "analyze_market_movement", spot_df |-> df]
    /\ pc = "call"
    /\ ret = NoCall

ApplyClassify ==
    Apply("analyze_market_movement", analyze_market_movement(config, args.spot_df))

NextClassify == ApplyClassify

SpecClassify == InitClassify /\ [][NextClassify]_vars

\* --- the strike selector ---

\* what get_strikes_by_expiry returns: distinct strikes in ascending order
StrikeLists == {Ascending(S) : S \in (SUBSET (1..MaxStrike)) \ {{}}}

\* the scenario of the specification (open 100, 102 at decision time) and one
\* with a fractional hedge target at the default 2%
SelectorScenarios ==
    {[op |-> "get_atm_and_hedge_strikes", spot_price |-> 102,
      available_strikes |-> <<95, 100, 105, 110>>, direction |-> "UP"],
     [op |-> "get_atm_and_hedge_strikes", spot_price |-> 75,
      available_strikes |-> <<72, 74, 75>>, direction |-> "UP"]}

InitStrikes ==
    /\ IdleBacktest
    /\ \E hd \in {20, 250} : config = [StrategyConfig EXCEPT !.hedge_distance_pct = hd]
    /\ \/ args \in SelectorScenarios
       \/ \E sp \in 0..(MaxStrike + 1), sl \in StrikeLists, dir \in {"UP", "DOWN"} :
             args = [op |-> "get_atm_and_hedge_strikes", spot_price |-> sp,
                     available_strikes |-> sl, direction |-> dir]
    /\ pc = "call"
    /\ ret = NoCall

ApplyStrikes ==
    Apply("get_atm_and_hedge_strikes",
          get_atm_and_hedge_strikes(config, args.spot_price, args.available_strikes,
                                    args.direction))

NextStrikes == ApplyStrikes

SpecStrikes == InitStrikes /\ [][NextStrikes]_vars

\* --- the pricing and slippage model ---

SlippageFractions == {1, 5, 250, 1500}      \* 0.1%, 0.5%, 25%, 150%

InitSlippage ==
    /\ IdleBacktest
    /\ \E es \in SlippageFractions, xs \in SlippageFractions :
          config = [StrategyConfig EXCEPT !.entry_slippage = es, !.exit_slippage = xs]
    /\ \E p \in 0..MaxPrice, e \in BOOLEAN, sell \in BOOLEAN :
          args = [op |-> "get_option_price_with_slippage", price |-> p,
                  is_entry |-> e, is_sell |-> sell]
    /\ pc = "call"
    /\ ret = NoCall

ApplySlippage ==
    Apply("get_option_price_with_slippage",
          get_option_price_with_slippage(config, args.price, args.is_entry, args.is_sell))

NextSlippage == ApplySlippage

SpecSlippage == InitSlippage /\ [][NextSlippage]_vars

\* --- the exit engine, one leg ---

MaxExitBars == 4    \* bars of an exit window given to the exit engine

\* <<high, low, close>> of a bar: flat at 100, 104 and 96; a rise to 108 from a
\* low of 104; a rise to 105, the stop level of a low of 100; a fall to 92 from a
\* high of 96; a fall to 95, the stop level of a high of 100
ExitBarShapes ==
    {<<100, 100, 100>>, <<104, 104, 104>>, <<96, 96, 96>>,
     <<108, 104, 108>>, <<105, 100, 105>>,
     <<96, 92, 92>>, <<100, 95, 95>>}

\* a row of an exit window; in these windows the time of the k-th bar is k
ExitBar(k, shape) ==
    [time |-> k, strike |-> 100, instrument_type |-> "PE", expiry |-> 1,
     high |-> shape[1], low |-> shape[2], close |-> shape[3]]

\* the windows of at most n bars, in time order
ExitWindows(n) ==
    {[k \in 1..Len(sh) |-> ExitBar(k, sh[k])] :
        sh \in UNION {[1..m -> ExitBarShapes] : m \in 0..n}}

InitTrail ==
    /\ IdleBacktest
    /\ config = StrategyConfig
    /\ \E df \in ExitWindows(MaxExitBars), short \in BOOLEAN :
          args = [op |-> "calculate_trailing_exits", option_df |-> df,
                  entry_price |-> 100 * Scale, is_short_position |-> short]
    /\ pc = "call"
    /\ ret = NoCall

ApplyTrail ==
    Apply("calculate_trailing_exits",
          calculate_trailing_exits(args.option_df, args.entry_price,
                                   args.is_short_position))

NextTrail == ApplyTrail

SpecTrail == InitTrail /\ [][NextTrail]_vars

\* calculate_trailing_exits called by a strategy whose configuration carries a
\* trailing window of 2, 3 (the default) or 4 bars
TrailWindows == {2, 3, 4}

InitWindow ==
    /\ IdleBacktest
    /\ \E w \in TrailWindows :
          config = [StrategyConfig EXCEPT !.trail_timeframe_minutes = w]
    /\ \E df \in ExitWindows(MaxExitBars), short \in BOOLEAN :
          args = [op |-> "calculate_trailing_exits", option_df |-> df,
                  entry_price |-> 100 * Scale, is_short_position |-> short]
    /\ pc = "call"
    /\ ret = NoCall

NextWindow == ApplyTrail

SpecWindow == InitWindow /\ [][NextWindow]_vars

\* --- the exit engine, both legs ---

\* the shapes of the bars of a leg's window: nothing, flat bars, a rise that
\* stops a short leg, a fall that stops a long leg
LegShapes ==
    {<<>>,
     <<<<100, 100, 100>>>>,
     <<<<100, 100, 100>>, <<108, 104, 108>>>>,
     <<<<100, 100, 100>>, <<100, 100, 100>>, <<108, 104, 108>>>>,
     <<<<100, 100, 100>>, <<100, 100, 100>>, <<96, 92, 92>>>>,
     <<<<100, 100, 100>>, <<100, 100, 100>>, <<108, 104, 108>>, <<96, 92, 92>>>>,
     <<<<100, 100, 100>>, <<100, 100, 100>>, <<100, 100, 100>>, <<100, 100, 100>>>>}

LegWindows == {[k \in 1..Len(sh) |-> ExitBar(k, sh[k])] : sh \in LegShapes}

\* what execute_trade holds when it reaches line 220: the legs chosen on the
\* entry date, the entry prices, and the windows of the two legs
LegsContext(cfg, main_df, hedge_df) ==
    LET entry_row == <<ExitBar(cfg.entry_time, <<100, 100, 100>>)>>
    IN  [date |-> 201,
         c |-> [direction |-> "UP", expiry |-> 1, available_strikes |-> <<100>>,
                instrument_type |-> "PE", atm_strike |-> 100, hedge_strike |-> 100,
                main_option_df |-> entry_row, hedge_option_df |-> entry_row,
                next_date |-> 1502],
         en |-> entry_prices(cfg, entry_row, entry_row),
         dfs |-> [main |-> main_df, hedge |-> hedge_df]]

\* lines 220-266 on the windows main_df and hedge_df: the exits of the two legs
\* and what execute_trade returns for them
exits_and_result(cfg, main_df, hedge_df) ==
    LET x == LegsContext(cfg, main_df, hedge_df)
        exits == calculate_independent_exits(main_df, hedge_df,
                                             x.en.entry_price, x.en.hedge_entry_price)
    IN  [exits |-> exits,
         result |-> trade_of_exits(cfg, x.date, x.c, x.en, x.dfs, exits)]

InitLegs ==
    /\ IdleBacktest
    /\ config = StrategyConfig
    /\ \E m \in LegWindows, h \in LegWindows, o \in LegWindows :
          args = [op |-> "calculate_independent_exits", main_df |-> m,
                  hedge_df |-> h, other_df |-> o]
    /\ pc = "call"
    /\ ret = NoCall

ApplyLegs ==
    Apply("calculate_independent_exits",
          exits_and_result(config, args.main_df, args.hedge_df))

\* the engine applied twice more, to the same main window with another hedge
\* window and to the same hedge window with another main window
ApplyLegsOther ==
    /\ Applied("calculate_independent_exits")
    /\ ret' = [exits |-> ret.exits,
               result |-> ret.result,
               other_hedge |-> exits_and_result(config, args.main_df, args.other_df).exits,
               other_main |-> exits_and_result(config, args.other_df, args.hedge_df).exits]
    /\ pc' = "compared"
    /\ UNCHANGED <<config, tables, spot_db, opt_db, available_dates, idx, trades,
                   successful_trades, log, args>>

NextLegs == ApplyLegs \/ ApplyLegsOther

SpecLegs == InitLegs /\ [][NextLegs]_vars

\* --- the exit engine under a configuration that names an exit policy ---

\* StrategyConfig declares no exit policy (config.py, lines 4-31); the one here
\* is an attribute set on the configuration object, which no code reads
ConfigWithPolicy(cfg, policy) ==
    [f \in DOMAIN cfg \cup {"exit_policy"} |->
        IF f = "exit_policy" THEN policy ELSE cfg[f]]

InitPolicy ==
    /\ IdleBacktest
    /\ \E p \in {"A", "B"} : config = ConfigWithPolicy(StrategyConfig, p)
    /\ \E m \in LegWindows, h \in LegWindows :
          args = [op |-> "calculate_independent_exits", main_df |-> m,
                  hedge_df |-> h, other_df |-> <<>>]
    /\ pc = "call"
    /\ ret = NoCall

NextPolicy == ApplyLegs

SpecPolicy == InitPolicy /\ [][NextPolicy]_vars

---------------------------------------------------------------------------
(* Properties *)

Processed == 1..Len(log)
IsTrade(i) == log[i].result.kind = "Trade"

\* the rows of table d inside the session, as a set
SessionRows(d) ==
    {r \in Range(opt_db[d]) : r.time >= SessionStart /\ r.time <= SessionEnd}

\* the rows of one leg on day d: its strike and instrument type, nearest expiry
LegRows(d, strike, ty) ==
    LET rows == {r \in SessionRows(d) : r.strike = strike /\ r.instrument_type = ty}
    IN  {r \in rows : \A q \in rows : r.expiry <= q.expiry}

\* the dates of the database after d
LaterDates(d) == {x \in Range(tables) : DateKey(x) > DateKey(d)}

\* The precondition failures of execute_trade(d), in the order of the claim.
\* A disjunct is read only if those before it are false.
PreconditionFailure(d) ==
    LET spot_df == get_spot_data(d)
        mv == analyze_market_movement(config, spot_df)
        strikes == get_strikes_by_expiry(d, get_option_data(d, 0, "")[1].expiry)
        sel == get_atm_and_hedge_strikes(config, mv.entry_price, strikes, mv.direction)
        ty == IF mv.direction = "UP" THEN "PE" ELSE "CE"
        main == LegRows(d, sel.atm_strike, ty)
        hedge == LegRows(d, sel.hedge_strike, ty)
        next == CHOOSE x \in LaterDates(d) :
                    \A y \in LaterDates(d) : DateKey(x) <= DateKey(y)
        next_main == LegRows(next, sel.atm_strike, ty)
        next_hedge == LegRows(next, sel.hedge_strike, ty)
        window(rows) == {r \in rows : r.time <= config.exit_time}
        undetermined(strike, short) ==
            calculate_trailing_exits(
                SelectSeq(get_option_data(next, strike, ty),
                          LAMBDA r : r.time <= config.exit_time), 0, short).price = -1
    IN  \/ Len(spot_df) = 0
        \/ \A r \in Range(spot_df) : r.time < config.market_open
        \/ \A r \in Range(spot_df) : r.time > config.entry_time
        \/ SessionRows(d) = {}
        \/ main = {}
        \/ hedge = {}
        \/ \A r \in main : r.time > config.entry_time
        \/ \A r \in hedge : r.time > config.entry_time
        \/ LaterDates(d) = {}
        \/ next_main = {}
        \/ next_hedge = {}
        \/ window(next_main) = {}
        \/ window(next_hedge) = {}
        \/ undetermined(sel.atm_strike, TRUE)
        \/ undetermined(sel.hedge_strike, FALSE)

\* C1: every processed date has a Trade exactly when none of the precondition
\* failures of the claim occurs on it, and None otherwise
C1_TradeIffPreconditions ==
    \A i \in Processed :
        /\ log[i].result.kind \in {"Trade", "None"}
        /\ IsTrade(i) <=> ~PreconditionFailure(log[i].date)

\* C1 witness: a run in which one date gave a Trade and another gave none
C1_Witness == \E i, j \in Processed : IsTrade(i) /\ ~IsTrade(j)

\* C2: run_backtest processes the dates of the database once each, in
\* chronological order; each processed date gave one Trade or one skip, so the
\* trades are in entry-date order with no date twice, trades + skips is the
\* number of dates processed, and at the end every date has been processed
C2_OneOutcomePerDate ==
    /\ Len(log) = idx
    /\ \A i \in Processed : log[i].date \in Range(tables)
    /\ \A i, j \in Processed : i < j => DateKey(log[i].date) < DateKey(log[j].date)
    /\ Len(trades) + Cardinality({i \in Processed : ~IsTrade(i)}) = Len(log)
    /\ Len(trades) = successful_trades
    /\ \A k \in 1..Len(trades) :
          \E i \in Processed : IsTrade(i) /\ log[i].result.trade = trades[k]
                                /\ trades[k].date = log[i].date
    /\ \A k, m \in 1..Len(trades) :
          k < m => DateKey(trades[k].date) < DateKey(trades[m].date)
    /\ pc \in {"returned", "crashed"} =>
          /\ {log[i].date : i \in Processed} = Range(tables)
          /\ Len(log) = Len(tables)

\* C2 witness: a finished run over tables not stored in date order, with two
\* trades and a skipped date
C2_Witness ==
    /\ pc = "returned"
    /\ Len(trades) >= 2
    /\ \E i \in Processed : ~IsTrade(i)
    /\ \E i \in 1..(Len(tables) - 1) : DateKey(tables[i]) > DateKey(tables[i + 1])

\* the bars of the classifier's input at or after the open / at or before the
\* decision time
FromOpen(df) == {r \in Range(df) : r.time >= config.market_open}
ToEntry(df) == {r \in Range(df) : r.time <= config.entry_time}

\* C3: analyze_market_movement takes the first bar at or after session open and
\* the last bar at or before the decision time, and the direction is UP exactly
\* when the decision price is strictly greater than the open price, DOWN otherwise
C3_DirectionRule ==
    Applied("analyze_market_movement") /\ FromOpen(args.spot_df) # {}
                                       /\ ToEntry(args.spot_df) # {} =>
        LET first == CHOOSE r \in FromOpen(args.spot_df) :
                        \A q \in FromOpen(args.spot_df) : r.time <= q.time
            last == CHOOSE r \in ToEntry(args.spot_df) :
                        \A q \in ToEntry(args.spot_df) : q.time <= r.time
        IN  /\ ret.ok
            /\ ret.open_price = first.close
            /\ ret.entry_price = last.close
            /\ ret.direction \in {"UP", "DOWN"}
            /\ ret.direction = "UP" <=> last.close > first.close

\* C3 witness: zero movement classified DOWN, on a series whose first bar is
\* before the open and whose last bar is after the decision time
C3_Witness ==
    /\ Applied("analyze_market_movement")
    /\ ret.ok
    /\ ret.direction = "DOWN"
    /\ ret.entry_price = ret.open_price
    /\ args.spot_df[1].time < config.market_open
    /\ args.spot_df[Len(args.spot_df)].time > config.entry_time

\* the direction of the underlying on date d
DirectionOn(d) == analyze_market_movement(config, get_spot_data(d)).direction

\* C4: in every Trade the instrument type is PE if the direction is UP and CE if
\* it is DOWN, and every series of the trade (main and hedge, entry date and
\* exit date) is of that instrument type
C4_InstrumentType ==
    \A i \in Processed : IsTrade(i) =>
        LET t == log[i].result.trade
            seen == log[i].result.seen
        IN  /\ t.instrument_type = IF DirectionOn(t.date) = "UP" THEN "PE" ELSE "CE"
            /\ \A c \in seen.main_entry \cup seen.hedge_entry
                        \cup seen.main_exit \cup seen.hedge_exit :
                  c.instrument_type = t.instrument_type
            /\ seen.main_entry # {} /\ seen.hedge_entry # {}
            /\ seen.main_exit # {} /\ seen.hedge_exit # {}

\* C4 witness: a PE trade on a rising day whose legs are different strikes
C4_Witness ==
    \E i \in Processed :
        /\ IsTrade(i)
        /\ DirectionOn(log[i].date) = "UP"
        /\ log[i].result.trade.instrument_type = "PE"
        /\ log[i].result.trade.strike # log[i].result.trade.hedge_strike

\* the selector's inputs and what the claims call its candidates and target
Offered == Range(args.available_strikes)
SelectsPE == args.direction = "UP"
HedgeSide == {x \in Offered : IF SelectsPE THEN x < ret.atm_strike ELSE x > ret.atm_strike}
\* ATM x (1 -+ offset), in thousandths
ExactTarget == ret.atm_strike * (IF SelectsPE THEN Scale - config.hedge_distance_pct
                                             ELSE Scale + config.hedge_distance_pct)
\* the same truncated to an integer, as int() does
TruncatedTarget == ExactTarget \div Scale

\* C5: the ATM strike is an available strike at minimal absolute distance from
\* the price, and among equally distant strikes it is the lowest
C5_AtmNearestLowest ==
    Applied("get_atm_and_hedge_strikes") =>
        /\ ret.atm_strike \in Offered
        /\ \A x \in Offered :
              /\ Abs(ret.atm_strike - args.spot_price) <= Abs(x - args.spot_price)
              /\ Abs(ret.atm_strike - args.spot_price) = Abs(x - args.spot_price)
                    => ret.atm_strike <= x

\* C5 witness: two strikes equally distant from the price, the lower one chosen
C5_Witness ==
    /\ Applied("get_atm_and_hedge_strikes")
    /\ \E x \in Offered :
          /\ x > ret.atm_strike
          /\ Abs(x - args.spot_price) = Abs(ret.atm_strike - args.spot_price)

\* C6: with a strike strictly below ATM (PE) or strictly above it (CE) the hedge
\* strike is strictly on that side; with none it is the ATM strike; so hedge and
\* main strike are equal only in that case
C6_HedgeSide ==
    Applied("get_atm_and_hedge_strikes") =>
        /\ HedgeSide # {} => ret.hedge_strike \in HedgeSide
        /\ HedgeSide = {} => ret.hedge_strike = ret.atm_strike
        /\ ret.hedge_strike = ret.atm_strike <=> HedgeSide = {}

\* C6 witness: a CE selection with strikes on both sides of ATM, hedge above
C6_Witness ==
    /\ Applied("get_atm_and_hedge_strikes")
    /\ ~SelectsPE
    /\ \E x \in Offered : x < ret.atm_strike
    /\ ret.hedge_strike > ret.atm_strike

\* C7 as claimed: with candidates, the hedge strike is a candidate at minimal
\* absolute distance from exactly ATM x (1 -+ offset)
C7_HedgeNearestExactTarget ==
    Applied("get_atm_and_hedge_strikes") /\ HedgeSide # {} =>
        /\ ret.hedge_strike \in HedgeSide
        /\ \A x \in HedgeSide :
              Abs(ret.hedge_strike * Scale - ExactTarget) <= Abs(x * Scale - ExactTarget)

\* C7 amended: with candidates, the hedge strike is a candidate at minimal
\* absolute distance from the target truncated to an integer,
\* int(ATM x (1 -+ offset))
C7_HedgeNearestTruncatedTarget ==
    Applied("get_atm_and_hedge_strikes") /\ HedgeSide # {} =>
        /\ ret.hedge_strike \in HedgeSide
        /\ \A x \in HedgeSide :
              Abs(ret.hedge_strike - TruncatedTarget) <= Abs(x - TruncatedTarget)

\* C7 witness: the example of the claim: ATM 100 from {95, 100, 105, 110} at 2%,
\* target 98, hedge 95
C7_Witness ==
    /\ Applied("get_atm_and_hedge_strikes")
    /\ args.available_strikes = <<95, 100, 105, 110>>
    /\ config.hedge_distance_pct = 20
    /\ ret.atm_strike = 100
    /\ TruncatedTarget = 98
    /\ ret.hedge_strike = 95

\* the slippage fraction of the kind of transaction
SlippageOf(is_entry) == IF is_entry THEN config.entry_slippage ELSE config.exit_slippage

\* C8: for a non-negative raw price and positive slippage fractions the adjusted
\* price is at most the raw price when selling and at least the raw price when
\* buying, the distance being the raw price times the entry slippage on entry
\* and times the exit slippage on exit
C8_SlippageAgainstTrader ==
    Applied("get_option_price_with_slippage") =>
        LET raw == args.price * Scale
        IN  /\ args.is_sell => ret <= raw
            /\ ~args.is_sell => ret >= raw
            /\ Abs(raw - ret) = args.price * SlippageOf(args.is_entry)

\* C8 witness: an exit sale of a positive price, strictly below the raw price,
\* under a configuration whose entry and exit slippage differ
C8_Witness ==
    /\ Applied("get_option_price_with_slippage")
    /\ args.is_sell /\ ~args.is_entry
    /\ args.price > 0
    /\ config.entry_slippage # config.exit_slippage
    /\ ret < args.price * Scale

\* the raw entry close of a leg on date d: the close of its last bar at or
\* before the entry time
RawEntryClose(d, strike, ty) ==
    LET upto == {r \in LegRows(d, strike, ty) : r.time <= config.entry_time}
    IN  (CHOOSE r \in upto : \A q \in upto : q.time <= r.time).close

\* C9: in every Trade the main leg is sold at entry and bought back at exit, the
\* hedge leg bought at entry and sold at exit, each raw close moved by the entry
\* or exit slippage accordingly, and main P&L = (main entry - main exit) x lot
\* size, hedge P&L = (hedge exit - hedge entry) x lot size
C9_ShortMainLongHedge ==
    \A i \in Processed : IsTrade(i) =>
        LET t == log[i].result.trade
            seen == log[i].result.seen
            main_raw == RawEntryClose(t.date, t.strike, t.instrument_type)
            hedge_raw == RawEntryClose(t.date, t.hedge_strike, t.instrument_type)
        IN  /\ t.entry_price = main_raw * (Scale - config.entry_slippage)
            /\ t.hedge_entry_price = hedge_raw * (Scale + config.entry_slippage)
            /\ t.exit_price = seen.main_exit_price_raw * (Scale + config.exit_slippage)
            /\ t.hedge_exit_price =
                   seen.hedge_exit_price_raw * (Scale - config.exit_slippage)
            /\ t.main_pnl = (t.entry_price - t.exit_price) * config.lot_size
            /\ t.hedge_pnl = (t.hedge_exit_price - t.hedge_entry_price) * config.lot_size

\* C9 witness: a CE trade (falling day) and a PE trade (rising day) in one run,
\* under the configuration with lot size 2 and an exit slippage of its own
C9_Witness ==
    /\ config.lot_size = 2
    /\ config.exit_slippage # config.entry_slippage
    /\ \E i, j \in Processed :
          /\ IsTrade(i) /\ log[i].result.trade.instrument_type = "PE"
          /\ IsTrade(j) /\ log[j].result.trade.instrument_type = "CE"

\* C10: every Trade has total P&L = main P&L + hedge P&L
C10_TotalIsSum ==
    \A k \in 1..Len(trades) :
        trades[k].total_pnl = trades[k].main_pnl + trades[k].hedge_pnl

\* C10 witness: a Trade whose legs both have a non-zero P&L, of opposite sign
C10_Witness ==
    \E k \in 1..Len(trades) :
        /\ trades[k].main_pnl < 0
        /\ trades[k].hedge_pnl > 0

\* the exit window given to the exit engine, and the bars of the claims: the
\* last three bars up to and including bar i
Window == args.option_df
LastThree(i) == {k \in 1..Len(Window) : k <= i /\ k >= i - 2}

\* bar i closes strictly above (1 + buffer) x the lowest low of its last three bars
AboveShortStop(i) ==
    \E k \in LastThree(i) :
        /\ \A j \in LastThree(i) : Window[k].low <= Window[j].low
        /\ Window[i].close * Scale > (Scale + buffer_pct) * Window[k].low

\* bar i closes strictly below (1 - buffer) x the highest high of its last three bars
BelowLongStop(i) ==
    \E k \in LastThree(i) :
        /\ \A j \in LastThree(i) : Window[k].high >= Window[j].high
        /\ Window[i].close * Scale < (Scale - buffer_pct) * Window[k].high

\* the third and later bars that trigger the stop of the short / of the long leg
ShortHits == {i \in 3..Len(Window) : AboveShortStop(i)}
LongHits == {i \in 3..Len(Window) : BelowLongStop(i)}

\* the result is the exit at bar i for the given reason
ExitsAt(i, reason) ==
    ret = [time |-> Window[i].time, price |-> Window[i].close, reason |-> reason]

\* C13: for either leg and every price series, an exit for a reason other than
\* Time Exit is never at the first or the second bar of the window: it is at a
\* third or later bar
C13_NoStopBeforeThirdBar ==
    Applied("calculate_trailing_exits") /\ ret.price # -1 /\ ret.reason # "Time Exit" =>
        /\ Len(Window) >= 3
        /\ \E i \in 3..Len(Window) : ret.time = Window[i].time
        /\ ret.time # Window[1].time /\ ret.time # Window[2].time

\* C13 witness: the second bar already closes beyond the stop level of its leg,
\* and the leg is stopped at the third bar
C13_Witness ==
    /\ Applied("calculate_trailing_exits")
    /\ Len(Window) >= 3
    /\ IF args.is_short_position THEN AboveShortStop(2) ELSE BelowLongStop(2)
    /\ ExitsAt(3, "Trail Stop Hit")

C16_TimeExitAtLastBar ==
    Applied("calculate_trailing_exits") /\ Len(Window) > 0
        /\ (IF args.is_short_position THEN ShortHits ELSE LongHits) = {} =>
            ExitsAt(Len(Window), "Time Exit")

\* C16 witness: a window of two bars whose second bar closes beyond the stop
\* level, left at that bar by Time Exit
C16_Witness ==
    /\ Applied("calculate_trailing_exits")
    /\ Len(Window) = 2
    /\ IF args.is_short_position THEN AboveShortStop(2) ELSE BelowLongStop(2)
    /\ ExitsAt(2, "Time Exit")

\* C17: the legs are not coupled: the main leg's exit time, price and reason are
\* the same whatever the hedge series is, and the hedge leg's are the same
\* whatever the main series is
C17_LegsIndependent ==
    pc = "compared" =>
        /\ ret.other_hedge.main = ret.exits.main
        /\ ret.other_main.hedge = ret.exits.hedge

\* C17 witness: the main leg is stopped while the hedge leg stays to its last
\* bar at a later time, and replacing a leg's series changes that leg's exit
C17_Witness ==
    /\ pc = "compared"
    /\ ret.exits.main.reason = "Trail Stop Hit"
    /\ ret.exits.hedge.reason = "Time Exit"
    /\ ret.exits.hedge.time > ret.exits.main.time
    /\ ret.other_hedge.hedge # ret.exits.hedge
    /\ ret.other_main.main # ret.exits.main

\* C18: on an empty series the exit engine reports No Data with no exit time and
\* no exit price, and when the exit price of either leg is undetermined no Trade
\* is produced
C18_NoDataNoTrade ==
    Applied("calculate_independent_exits") =>
        /\ Len(args.main_df) = 0 =>
              ret.exits.main = [time |-> 0, price |-> -1, reason |-> "No Data"]
        /\ Len(args.hedge_df) = 0 =>
              ret.exits.hedge = [time |-> 0, price |-> -1, reason |-> "No Data"]
        /\ ret.exits.main.price = -1 \/ ret.exits.hedge.price = -1 =>
              ret.result.kind = "None"
        /\ ret.result.kind = "Trade" =>
              Len(args.main_df) > 0 /\ Len(args.hedge_df) > 0

\* C18 witness: the hedge series is empty, the main series is not and has its
\* exit, and there is no Trade
C18_Witness ==
    /\ Applied("calculate_independent_exits")
    /\ Len(args.hedge_df) = 0
    /\ ret.exits.hedge.reason = "No Data"
    /\ ret.exits.main.reason = "Trail Stop Hit"
    /\ ret.result.kind = "None"

\* the first date of the database after d (d is not the last one)
Successor(d) ==
    CHOOSE x \in LaterDates(d) : \A y \in LaterDates(d) : DateKey(x) <= DateKey(y)

\* run_backtest has left its loop and returned, with or without the report step
Returned == pc \in {"returned", "main_done", "main_crashed"}

\* C11: in every Trade the exit date is the immediate chronological successor
\* of the entry date among the dates of the database: not the entry date, not
\* an earlier date, not a date beyond an intermediate one; a date whose
\* successor has no usable option rows has no Trade
C11_ExitOnSuccessor ==
    \A i \in Processed :
        /\ IsTrade(i) =>
              LET t == log[i].result.trade
              IN  /\ t.date = log[i].date
                  /\ t.exit_date \in Range(tables)
                  /\ DateKey(t.exit_date) > DateKey(t.date)
                  /\ \A d \in Range(tables) :
                        ~(DateKey(t.date) < DateKey(d) /\ DateKey(d) < DateKey(t.exit_date))
        /\ LaterDates(log[i].date) # {} /\ SessionRows(Successor(log[i].date)) = {} =>
              ~IsTrade(i)

\* C11 witness: the tables are not stored in date order; a date is skipped
\* because its successor has no option rows although a later date has them; and
\* a Trade of the same run exits on the successor of its entry date
C11_Witness ==
    /\ \E i \in 1..(Len(tables) - 1) : DateKey(tables[i]) > DateKey(tables[i + 1])
    /\ \E i \in Processed :
          /\ log[i].result = NoTrade("No next day main option data")
          /\ \E d \in LaterDates(Successor(log[i].date)) : SessionRows(d) # {}
    /\ \E i \in Processed :
          /\ IsTrade(i)
          /\ log[i].result.trade.exit_date = Successor(log[i].date)

\* C12: the last date of the dataset has no next trading date: execute_trade
\* gives no Trade for it, nothing is raised, and run_backtest goes on to return
\* after it (for a dataset with a last date, run_backtest does not raise)
C12_LastDateSkipped ==
    /\ \A i \in Processed : LaterDates(log[i].date) = {} =>
          /\ log[i].result.kind = "None"
          /\ i = Len(available_dates)
          /\ pc \in {"loop", "returned", "main_done", "main_crashed"}
    /\ Len(tables) > 0 /\ pc # "start" /\ idx = Len(available_dates) =>
          /\ LaterDates(log[idx].date) = {}
          /\ pc # "crashed"

\* C12 witness: run_backtest has returned; the last date passed every test up
\* to the search of the next trading date and was skipped there, after a Trade
C12_Witness ==
    /\ pc = "returned"
    /\ Len(trades) > 0
    /\ log[Len(log)].result = NoTrade("No next trading day")

\* the underlying of date d has bars in the session, but none at or after the
\* open or none at or before the decision time: analyze_market_movement raises
ClassificationFails(d) ==
    /\ Len(get_spot_data(d)) > 0
    /\ \/ \A r \in Range(get_spot_data(d)) : r.time < config.market_open
       \/ \A r \in Range(get_spot_data(d)) : r.time > config.entry_time

\* the loop is about to process a date on which the classification fails
AtFailingDate ==
    /\ pc = "loop"
    /\ idx < Len(available_dates)
    /\ ClassificationFails(available_dates[idx + 1])

\* C19: a failure raised while one date is simulated becomes a skip of that
\* date only: execute_trade returns None, the loop goes on to the next date with
\* the Trades collected so far unchanged, and every date of the database has
\* been processed when run_backtest returns
C19_FailureIsSkip ==
    /\ [][AtFailingDate =>
            /\ pc' = "loop"
            /\ idx' = idx + 1
            /\ trades' = trades
            /\ successful_trades' = successful_trades
            /\ log'[idx'] = [date |-> available_dates[idx + 1],
                             result |-> NoTrade("Error processing")]]_vars
    /\ [](Returned => /\ idx = Len(tables)
                      /\ {log[i].date : i \in Processed} = Range(tables))

\* C19 witness: a date whose classification fails lies between two dates with
\* a Trade, and run_backtest has returned
C19_Witness ==
    /\ pc = "returned"
    /\ \E i, j, k \in Processed :
          /\ i < j /\ j < k
          /\ IsTrade(i) /\ IsTrade(k)
          /\ ClassificationFails(log[j].date)
          /\ ~IsTrade(j)

\* C20: for every dataset, the empty one included, the run ends without raising:
\* neither run_backtest nor the report step of main crashes, and run_backtest
\* returns having counted the Trades of the dates it processed
C20_RunNeverCrashes ==
    /\ pc # "crashed"
    /\ pc # "main_crashed"
    /\ Returned =>
          /\ Len(log) = Len(tables)
          /\ successful_trades = Cardinality({i \in Processed : IsTrade(i)})

AtRollingHigh(df, i) ==
    \A k \in 1..i : k >= i - 2 => df[i].close >= df[k].high

\* the timestamps both legs have at which either leg closes at or above its own
\* rolling 3-bar high
CoupledStopTimes ==
    {tm \in {r.time : r \in Range(args.main_df)} \cap {r.time : r \in Range(args.hedge_df)} :
        \/ \E i \in 1..Len(args.main_df) :
              args.main_df[i].time = tm /\ AtRollingHigh(args.main_df, i)
        \/ \E j \in 1..Len(args.hedge_df) :
              args.hedge_df[j].time = tm /\ AtRollingHigh(args.hedge_df, j)}

\* C22: the configuration selects the exit policy: with Policy A both legs exit
\* together at the first shared timestamp at which either leg's close is at or
\* above its own rolling 3-bar high, each at its close of that timestamp; with
\* Policy B each leg exits independently by the side-aware rule
C22_PolicySelectable ==
    Applied("calculate_independent_exits") =>
        /\ config.exit_policy = "A" /\ CoupledStopTimes # {} =>
              LET tm == SetMin(CoupledStopTimes)
              IN  /\ ret.exits.main.time = tm
                  /\ ret.exits.hedge.time = tm
                  /\ \E i \in 1..Len(args.main_df) :
                        args.main_df[i].time = tm /\ ret.exits.main.price = args.main_df[i].close
                  /\ \E j \in 1..Len(args.hedge_df) :
                        args.hedge_df[j].time = tm /\ ret.exits.hedge.price = args.hedge_df[j].close
        /\ config.exit_policy = "B" =>
              /\ ret.exits.main = calculate_trailing_exits(args.main_df, 0, TRUE)
              /\ ret.exits.hedge = calculate_trailing_exits(args.hedge_df, 0, FALSE)

\* the nearest (earliest) expiry among the option rows of date d
NearestExpiry(d) == SetMin({r.expiry : r \in SessionRows(d)})

\* C23: the strikes offered to the strike selector on a date are exactly the
\* strikes of the nearest expiry of the date's option rows, in ascending
\* order, whatever the order of the rows and the number of expiries
C23_StrikesOfNearestExpiry ==
    \A i \in Processed : IsTrade(i) =>
        LET seen == log[i].result.seen
            d == log[i].date
        IN  /\ seen.expiry = NearestExpiry(d)
            /\ seen.available_strikes =
                   Ascending({r.strike : r \in {q \in SessionRows(d) :
                                                    q.expiry = NearestExpiry(d)}})

\* C25: in every Trade each leg is one contract throughout: its exit series on
\* the next date has the strike, instrument type and expiry of its entry
\* series, and the expiry of both legs is the expiry whose strikes were given
\* to the strike selector
C25_SameContractThroughout ==
    \A i \in Processed : IsTrade(i) =>
        LET seen == log[i].result.seen
            t == log[i].result.trade
        IN  /\ seen.main_entry =
                   {[strike |-> t.strike, instrument_type |-> t.instrument_type,
                     expiry |-> seen.expiry]}
            /\ seen.hedge_entry =
                   {[strike |-> t.hedge_strike, instrument_type |-> t.instrument_type,
                     expiry |-> seen.expiry]}
            /\ seen.main_exit = seen.main_entry
            /\ seen.hedge_exit = seen.hedge_entry

\* the last w bars up to bar i, and the bars from the w-th on that trigger the
\* stop of the leg against the extreme of their last w bars
LastBars(i, w) == {k \in 1..Len(Window) : k <= i /\ k > i - w}
StopHits(w) ==
    {i \in w..Len(Window) :
        IF args.is_short_position
        THEN Window[i].close * Scale >
                 (Scale + buffer_pct) * SetMin({Window[k].low : k \in LastBars(i, w)})
        ELSE Window[i].close * Scale <
                 (Scale - buffer_pct) * SetMax({Window[k].high : k \in LastBars(i, w)})}

\* C24: the rolling window of the exit engine has the configured number of
\* bars, and so many bars are observed before a stop may trigger, for every
\* configured trailing window size
C24_ConfiguredWindow ==
    Applied("calculate_trailing_exits") /\ Len(Window) > 0 =>
        LET hits == StopHits(config.trail_timeframe_minutes)
        IN  IF hits # {}
            THEN ExitsAt(SetMin(hits), "Trail Stop Hit")
            ELSE ExitsAt(Len(Window), "Time Exit")

\* C26: every field the report generator reads from a Trade is a field of the
\* Trade records of the run, so the report step over a non-empty list of
\* Trades never fails on a missing field
C26_ReportReadsTradeFields ==
    /\ \A k \in 1..Len(trades) : ReportedFields \subseteq DOMAIN trades[k]
    /\ Len(trades) > 0 /\ pc \in {"main_done", "main_crashed"} => pc = "main_done"

\* the fraction p, over the capital, is pnl as a percentage of capital, and 0
\* when the capital is not positive
IsPctOf(p, pnl, capital) ==
    IF capital > 0 THEN p.den = capital /\ p.num = pnl * 100 ELSE p.num = 0

\* C27: the percentage returns of a Trade are those of one unit, whatever the
\* lot size: the leg's price difference relative to its entry price, the sum
\* of the two differences relative to the two entry prices together, and 0
\* when that capital is not positive
C27_PctIndependentOfLotSize ==
    \A k \in 1..Len(trades) :
        LET t == trades[k]
            main == t.entry_price - t.exit_price
            hedge == t.hedge_exit_price - t.hedge_entry_price
        IN  /\ IsPctOf(t.main_pnl_pct, main, t.entry_price)
            /\ IsPctOf(t.hedge_pnl_pct, hedge, t.hedge_entry_price)
            /\ IsPctOf(t.total_pnl_pct, main + hedge, t.entry_price + t.hedge_entry_price)

============================================================================
